---- MODULE Spec2Model ----
(***************************************************************************)
(* The undo/redo command history of python/src/history.py, layered over    *)
(* the graph store of python/src/graph.py through the AddNode / AddEdge    *)
(* commands of python/src/commands.py.                                     *)
(*                                                                         *)
(* Python indexes lists from 0, TLA+ sequences from 1: history[i] of the   *)
(* source is history[i + 1] here; cursor and revision keep their Python    *)
(* values.                                                                 *)
(***************************************************************************)
EXTENDS Integers, Sequences, FiniteSets, TLC

\* Hashable node identifiers are 1 .. MaxNode.
MaxNode == 1

\* Number of commands the caller constructs and appends in one session.
MaxCmds == 3

\* A node operand that set.add / set.remove cannot hash (a list, say): the
\* set operation raises TypeError and leaves the set as it was.
Unhashable == 0

NoError == "none"

VARIABLES
    history,    \* History.history: the log of commands
    cursor,     \* History.cursor: where we have executed up to so far
    revision,   \* History.revision: the position we want to execute to
    nodes,      \* Graph.nodes
    edges,      \* Graph.edges
    nextId,     \* number of command objects constructed so far (object identity)
    lastOp,     \* the History method called last
    raised,     \* the exception the last call raised, or NoError
    everFailed, \* whether any command method has raised so far
    calls,      \* the command methods the last call invoked, in order
    applied,    \* ids whose execute() succeeded and was not since rolled back, oldest first
    snap,       \* per applied id, the store right after its last execute()
    before,     \* per applied id, the store right before its last execute()
    pending,    \* whether append was called since the last call that set the cursor
    discarded,  \* ids of the commands append has cut off the log
    phase,      \* "fresh", "appended" (appends only), "executed" (then one execute), "other"
    undone,     \* whether undo was called since the last append
    pre,        \* the state the last call started from
    rt          \* an undo, and the redo right after it: the state the undo started from

vars == <<history, cursor, revision, nodes, edges, nextId, lastOp,
          raised, everFailed, calls, applied, snap, before, pending, discarded,
          phase, undone, pre, rt>>

----------------------------------------------------------------------------
(* graph.py *)

Graph == [nodes |-> nodes, edges |-> edges]

EmptyGraph == [nodes |-> {}, edges |-> {}]

Hashable(v) == v # Unhashable

add_node(g, node) ==
    IF ~Hashable(node) THEN [err |-> "TypeError", g |-> g]
    ELSE [err |-> NoError, g |-> [g EXCEPT !.nodes = @ \cup {node}]]

remove_node(g, node) ==
    IF ~Hashable(node) THEN [err |-> "TypeError", g |-> g]
    ELSE IF node \notin g.nodes THEN [err |-> "KeyError", g |-> g]
    ELSE [err |-> NoError, g |-> [g EXCEPT !.nodes = @ \ {node}]]

add_edge(g, node1, node2) ==
    IF ~(Hashable(node1) /\ Hashable(node2)) THEN [err |-> "TypeError", g |-> g]
    ELSE [err |-> NoError, g |-> [g EXCEPT !.edges = @ \cup {<<node1, node2>>}]]

remove_edge(g, node1, node2) ==
    IF ~(Hashable(node1) /\ Hashable(node2)) THEN [err |-> "TypeError", g |-> g]
    ELSE IF <<node1, node2>> \notin g.edges THEN [err |-> "KeyError", g |-> g]
    ELSE [err |-> NoError, g |-> [g EXCEPT !.edges = @ \ {<<node1, node2>>}]]

----------------------------------------------------------------------------
(* commands.py *)

AddNode(node) == [kind |-> "AddNode", node1 |-> node, node2 |-> node]

AddEdge(node1, node2) == [kind |-> "AddEdge", node1 |-> node1, node2 |-> node2]

\* The commands over hashable node identifiers, as the scripts construct them.
HashableCommands ==
    {AddNode(n) : n \in 1 .. MaxNode}
        \cup {AddEdge(n1, n2) : n1 \in 1 .. MaxNode, n2 \in 1 .. MaxNode}

\* Those, and a node command whose operand cannot be hashed: its execute()
\* and rollback() both raise.
Commands == HashableCommands \cup {AddNode(Unhashable)}

Command_execute(c, g) ==
    IF c.kind = "AddNode" THEN add_node(g, c.node1)
    ELSE add_edge(g, c.node1, c.node2)

Command_rollback(c, g) ==
    IF c.kind = "AddNode" THEN remove_node(g, c.node1)
    ELSE remove_edge(g, c.node1, c.node2)

----------------------------------------------------------------------------
(* Bookkeeping of what a call did. *)

Call(m, id, err) == [m |-> m, id |-> id, ok |-> err = NoError]

RemoveId(seq, id) == SelectSeq(seq, LAMBDA x : x # id)

\* applied after one command method call
ApplyCall(ap, call) ==
    IF ~call.ok THEN ap
    ELSE IF call.m = "execute" THEN Append(RemoveId(ap, call.id), call.id)
    ELSE RemoveId(ap, call.id)

RECURSIVE ApplyCalls(_, _)
ApplyCalls(ap, cs) ==
    IF cs = <<>> THEN ap ELSE ApplyCalls(ApplyCall(ap, Head(cs)), Tail(cs))

Snapshot ==
    [history |-> history, cursor |-> cursor, revision |-> revision,
     nodes |-> nodes, edges |-> edges, applied |-> applied, op |-> lastOp]

InSeq(seq, x) == \E k \in 1 .. Len(seq) : seq[k] = x

\* No undo / redo pair under way.
NoRoundTrip ==
    [stage |-> "none", history |-> <<>>, cursor |-> 0, revision |-> 0,
     nodes |-> {}, edges |-> {}, isApplied |-> FALSE, after |-> EmptyGraph,
     before |-> EmptyGraph]

\* An undo starts from here: the state, whether the command below the
\* revision is applied, and the store as it was right after that command's
\* last execute().
RoundTripStart ==
    [stage |-> "undone", history |-> history, cursor |-> cursor,
     revision |-> revision, nodes |-> nodes, edges |-> edges,
     isApplied |-> /\ revision \in 1 .. Len(history)
                   /\ InSeq(applied, history[revision].id),
     after |-> IF revision \in 1 .. Len(history)
               THEN snap[history[revision].id] ELSE EmptyGraph,
     before |-> IF revision \in 1 .. Len(history)
                THEN before[history[revision].id] ELSE EmptyGraph]

Ids(log) == {log[k].id : k \in 1 .. Len(log)}

\* What every call records: the caller's view of the call just made.
Record(op, err, cs) ==
    /\ lastOp' = op
    /\ raised' = err
    /\ everFailed' = (everFailed \/ err # NoError)
    /\ calls' = cs
    /\ pre' = Snapshot

----------------------------------------------------------------------------
(* history.py *)

Init ==
    /\ history = <<>>
    /\ cursor = 0
    /\ revision = 0
    /\ nodes = {}
    /\ edges = {}
    /\ nextId = 0
    /\ lastOp = "init"
    /\ raised = NoError
    /\ everFailed = FALSE
    /\ calls = <<>>
    /\ applied = <<>>
    /\ snap = [i \in 1 .. MaxCmds |-> EmptyGraph]
    /\ before = [i \in 1 .. MaxCmds |-> EmptyGraph]
    /\ pending = FALSE
    /\ discarded = {}
    /\ phase = "fresh"
    /\ undone = FALSE
    /\ pre = [history |-> <<>>, cursor |-> 0, revision |-> 0, nodes |-> {},
              edges |-> {}, applied |-> <<>>, op |-> "init"]
    /\ rt = NoRoundTrip

\* A slip: the future beyond the revision is kept.
NotTruncated(log, rev) == log

\* A slip: the slice ends one entry early.
TruncatedShort(log, rev) == SubSeq(log, 1, rev - 1)

\* self.history[0 : self.revision]
Truncated(log, rev) == SubSeq(log, 1, IF rev < Len(log) THEN rev ELSE Len(log))

\* A slip: append applies the command at once, as an eager history would.
append_eager(c) ==
    /\ nextId < MaxCmds
    /\ LET kept == SubSeq(history, 1, revision)
           cmd == [id |-> nextId + 1, kind |-> c.kind,
                   node1 |-> c.node1, node2 |-> c.node2]
           r == Command_execute(cmd, Graph)
           cs == <<Call("execute", cmd.id, r.err)>>
       IN /\ history' = Append(kept, cmd)
          /\ revision' = revision + 1
          /\ cursor' = revision + 1
          /\ nodes' = r.g.nodes
          /\ edges' = r.g.edges
          /\ discarded' = discarded \cup (Ids(history) \ Ids(kept))
          /\ applied' = ApplyCalls(applied, cs)
          /\ Record("append", r.err, cs)
    /\ nextId' = nextId + 1
    /\ phase' = IF phase \in {"fresh", "appended"} THEN "appended" ELSE "other"
    /\ undone' = FALSE
    /\ rt' = NoRoundTrip
    /\ UNCHANGED <<snap, before, pending>>

\* History.append(command), command a freshly constructed object
append(c) ==
    /\ nextId < MaxCmds
    /\ LET kept == Truncated(history, revision)
           cmd == [id |-> nextId + 1, kind |-> c.kind,
                   node1 |-> c.node1, node2 |-> c.node2]
           cut == Ids(history) \ Ids(kept)
       IN /\ history' = Append(kept, cmd)
          /\ revision' = revision + 1
          /\ discarded' = discarded \cup cut
          /\ applied' = SelectSeq(applied, LAMBDA x : x \notin cut)
          /\ snap' = [i \in 1 .. MaxCmds |-> IF i \in cut THEN EmptyGraph ELSE snap[i]]
          /\ before' = [i \in 1 .. MaxCmds |->
                            IF i \in cut THEN EmptyGraph ELSE before[i]]
    /\ pending' = TRUE
    /\ nextId' = nextId + 1
    /\ phase' = IF phase \in {"fresh", "appended"} THEN "appended" ELSE "other"
    /\ undone' = FALSE
    /\ Record("append", NoError, <<>>)
    /\ rt' = NoRoundTrip
    /\ UNCHANGED <<cursor, nodes, edges>>

\* A slip: the loop body never runs.
ExecuteLoopSkipped(i, stop, acc) == acc

\* for i in range(self.cursor, self.revision): self.history[i].execute()
\* acc carries the store, the exception raised (which ends the loop), the
\* calls made, and the snapshots.
RECURSIVE ExecuteLoop(_, _, _)
ExecuteLoop(i, stop, acc) ==
    IF i >= stop \/ acc.err # NoError THEN acc
    ELSE IF i + 1 > Len(history) THEN [acc EXCEPT !.err = "IndexError"]
    ELSE LET c == history[i + 1]
             r == Command_execute(c, acc.g)
         IN ExecuteLoop(i + 1, stop,
                [g |-> r.g,
                 err |-> r.err,
                 calls |-> Append(acc.calls, Call("execute", c.id, r.err)),
                 snap |-> IF r.err = NoError
                          THEN [acc.snap EXCEPT ![c.id] = r.g]
                          ELSE acc.snap,
                 before |-> IF r.err = NoError
                            THEN [acc.before EXCEPT ![c.id] = acc.g]
                            ELSE acc.before])

\* A slip: the cursor is not moved forward.
CursorKept(err, cur, rev) == cur

\* self.cursor = self.revision, reached when no execute() raised
CursorAfterExecute(err, cur, rev) == IF err = NoError THEN rev ELSE cur

\* History.execute()
execute ==
    LET res == ExecuteLoop(cursor, revision,
                   [g |-> Graph, err |-> NoError, calls |-> <<>>, snap |-> snap,
                    before |-> before])
    IN /\ nodes' = res.g.nodes
       /\ edges' = res.g.edges
       /\ snap' = res.snap
       /\ before' = res.before
       /\ pending' = (pending /\ res.err # NoError)
       /\ applied' = ApplyCalls(applied, res.calls)
       /\ cursor' = CursorAfterExecute(res.err, cursor, revision)
       /\ phase' = IF phase = "appended" THEN "executed" ELSE "other"
       /\ Record("execute", res.err, res.calls)
       /\ rt' = NoRoundTrip
       /\ UNCHANGED <<history, revision, nextId, discarded, undone>>

Max(a, b) == IF a >= b THEN a ELSE b

\* A slip: undo drops the command it rolls back from the log.
undo_pops ==
    /\ IF history = <<>>
       THEN /\ Record("undo", NoError, <<>>)
            /\ UNCHANGED <<history, cursor, revision, nodes, edges, applied>>
       ELSE LET rev == Max(0, revision - 1)
                c == history[rev + 1]
                r == Command_rollback(c, Graph)
                cs == <<Call("rollback", c.id, r.err)>>
            IN /\ revision' = rev
               /\ cursor' = rev
               /\ history' = SubSeq(history, 1, rev)
               /\ nodes' = r.g.nodes
               /\ edges' = r.g.edges
               /\ applied' = ApplyCalls(applied, cs)
               /\ Record("undo", r.err, cs)
    /\ phase' = "other"
    /\ undone' = TRUE
    /\ pending' = FALSE
    /\ rt' = RoundTripStart
    /\ UNCHANGED <<nextId, discarded, snap, before>>

\* History.undo()
undo ==
    /\ IF history = <<>>
       THEN /\ Record("undo", NoError, <<>>)
            /\ UNCHANGED <<cursor, revision, nodes, edges, applied, snap, before,
                           pending>>
       ELSE LET rev == Max(0, revision - 1)
            IN /\ revision' = rev
               /\ cursor' = rev
               /\ pending' = FALSE
               /\ IF rev + 1 > Len(history)
                  THEN /\ Record("undo", "IndexError", <<>>)
                       /\ UNCHANGED <<nodes, edges, applied, snap, before>>
                  ELSE LET c == history[rev + 1]
                           r == Command_rollback(c, Graph)
                           cs == <<Call("rollback", c.id, r.err)>>
                       IN /\ nodes' = r.g.nodes
                          /\ edges' = r.g.edges
                          /\ applied' = ApplyCalls(applied, cs)
                          /\ snap' = IF r.err = NoError
                                      THEN [snap EXCEPT ![c.id] = EmptyGraph]
                                      ELSE snap
                          /\ before' = IF r.err = NoError
                                        THEN [before EXCEPT ![c.id] = EmptyGraph]
                                        ELSE before
                          /\ Record("undo", r.err, cs)
    /\ phase' = "other"
    /\ undone' = TRUE
    /\ rt' = RoundTripStart
    /\ UNCHANGED <<history, nextId, discarded>>

\* A slip: the end of the log is taken to be one entry earlier.
NothingToRedoOffByOne(rev, log) == rev = Len(log) - 1

\* if self.revision == len(self.history): return
NothingToRedo(rev, log) == rev = Len(log)

\* History.redo()
redo ==
    /\ IF NothingToRedo(revision, history)
       THEN /\ Record("redo", NoError, <<>>)
            /\ UNCHANGED <<cursor, revision, nodes, edges, applied, snap, before,
                           pending>>
       ELSE IF revision + 1 > Len(history)
       THEN /\ Record("redo", "IndexError", <<>>)
            /\ UNCHANGED <<cursor, revision, nodes, edges, applied, snap, before,
                           pending>>
       ELSE LET c == history[revision + 1]
                r == Command_execute(c, Graph)
                cs == <<Call("execute", c.id, r.err)>>
            IN /\ nodes' = r.g.nodes
               /\ edges' = r.g.edges
               /\ applied' = ApplyCalls(applied, cs)
               /\ snap' = IF r.err = NoError THEN [snap EXCEPT ![c.id] = r.g] ELSE snap
               /\ before' = IF r.err = NoError
                             THEN [before EXCEPT ![c.id] = Graph]
                             ELSE before
               /\ pending' = (pending /\ r.err # NoError)
               /\ revision' = IF r.err = NoError THEN revision + 1 ELSE revision
               /\ cursor' = IF r.err = NoError THEN revision + 1 ELSE cursor
               /\ Record("redo", r.err, cs)
    /\ phase' = "other"
    /\ rt' = IF rt.stage = "undone" THEN [rt EXCEPT !.stage = "redone"] ELSE NoRoundTrip
    /\ UNCHANGED <<history, nextId, discarded, undone>>

\* The caller: any History method, in any order, any number of times.
Next ==
    \/ \E c \in HashableCommands : append(c)
    \/ execute
    \/ undo
    \/ redo

\* The same caller, who may also append a command whose execute() fails.
NextAnyOperand ==
    \/ \E c \in Commands : append(c)
    \/ execute
    \/ undo
    \/ redo

\* Sessions over hashable node identifiers.
Spec == Init /\ [][Next]_vars

\* Sessions in which a command's execute() may fail.
SpecAnyOperand == Init /\ [][NextAnyOperand]_vars

----------------------------------------------------------------------------
(* Properties. *)

SeqSet(seq) == {seq[k] : k \in 1 .. Len(seq)}

\* The forward effects of a log on an empty store.
ForwardNodes(log) ==
    {log[k].node1 : k \in {j \in 1 .. Len(log) : log[j].kind = "AddNode"}}

ForwardEdges(log) ==
    {<<log[k].node1, log[k].node2>> :
        k \in {j \in 1 .. Len(log) : log[j].kind = "AddEdge"}}

\* The last call changed nothing the caller can see.
NothingChanged ==
    /\ history = pre.history
    /\ cursor = pre.cursor
    /\ revision = pre.revision
    /\ nodes = pre.nodes
    /\ edges = pre.edges

\* C1: after one or more appends on a fresh History and then one execute(),
\* cursor == revision == len(log), execute() has been called on every
\* appended command exactly once, in append order, and the store holds the
\* forward effect of each.
C1_AppendsThenExecute ==
    phase = "executed" =>
        /\ raised = NoError
        /\ cursor = revision
        /\ revision = Len(history)
        /\ calls = [k \in 1 .. Len(history) |->
                        Call("execute", history[k].id, NoError)]
        /\ nodes = ForwardNodes(history)
        /\ edges = ForwardEdges(history)

\* Three appends, a node and an edge among them, then the execute.
C1_Witness ==
    /\ phase = "executed"
    /\ Len(history) = 3
    /\ nodes # {}
    /\ edges # {}

\* C2: while no command has failed, the applied commands of the log are
\* exactly log[0 .. cursor-1]; and after execute() returns, every command of
\* log[0 .. revision-1] is applied.
C2_AppliedIsPrefix ==
    ~everFailed =>
        /\ SeqSet(applied) \cap Ids(history) = Ids(SubSeq(history, 1, cursor))
        /\ (lastOp = "execute" =>
                Ids(SubSeq(history, 1, revision)) \subseteq SeqSet(applied))

\* C3: undo() at revision 0 on a non-empty log is a no-op: no rollback(), no
\* error, nothing changed.
C3_UndoAtZeroIsNoOp ==
    (lastOp = "undo" /\ pre.revision = 0 /\ pre.history # <<>>) =>
        /\ calls = <<>>
        /\ raised = NoError
        /\ NothingChanged

\* C4: undo() at revision > 0 decrements revision by 1 and calls rollback()
\* on exactly one command, the one most recently applied.
C4_UndoRollsBackLastApplied ==
    (lastOp = "undo" /\ pre.revision > 0) =>
        /\ revision = pre.revision - 1
        /\ Len(calls) = 1
        /\ calls[1].m = "rollback"
        /\ pre.applied # <<>>
        /\ calls[1].id = pre.applied[Len(pre.applied)]

\* C5: append(c) on a log of length N at revision R <= N makes the log the
\* first R old entries followed by c, of length R+1, and sets revision to
\* R+1; no old entry at index >= R stays in the log.
C5_TruncateOnAppend ==
    lastOp = "append" =>
        /\ pre.revision <= Len(pre.history)
        /\ Len(history) = pre.revision + 1
        /\ SubSeq(history, 1, pre.revision) = SubSeq(pre.history, 1, pre.revision)
        /\ history[Len(history)].id \notin Ids(pre.history)
        /\ revision = pre.revision + 1
        /\ \A k \in pre.revision + 1 .. Len(pre.history) :
                pre.history[k].id \notin Ids(history)

\* An append at R < N: a future was there to cut.
C5_Witness ==
    /\ lastOp = "append"
    /\ pre.revision < Len(pre.history)
    /\ pre.revision > 0

C7_UndoRedoRoundTrip ==
    (rt.stage = "redone" /\ rt.isApplied /\ rt.cursor = rt.revision) =>
        /\ Graph = rt.after
        /\ cursor = rt.revision
        /\ revision = rt.revision
        /\ history = rt.history

\* C8: a command append has cut off the log is never called again and never
\* comes back into the log; right after an append revision == len(log), and
\* it stays so until an undo(), so that every redo() before one is a no-op.
C8_TruncationIsIrreversible ==
    /\ \A k \in 1 .. Len(calls) : calls[k].id \notin discarded
    /\ discarded \cap Ids(history) = {}
    /\ lastOp = "append" => revision = Len(history)
    /\ ~undone => revision = Len(history)
    /\ (lastOp = "redo" /\ ~undone) => (calls = <<>> /\ NothingChanged)

\* A redo that finds nothing to redo after an append has cut a future off.
C8_Witness ==
    /\ discarded # {}
    /\ lastOp = "redo"
    /\ ~undone
    /\ Len(history) >= 2

\* C9: undo() on an empty history, and redo() at revision == len(log), change
\* nothing, call no command method and raise nothing.
C9_NoOps ==
    (\/ (lastOp = "undo" /\ pre.history = <<>>)
     \/ (lastOp = "redo" /\ pre.revision = Len(pre.history))) =>
        /\ NothingChanged
        /\ calls = <<>>
        /\ raised = NoError

\* A redo at the end of a log whose commands are applied.
C9_Witness ==
    /\ lastOp = "redo"
    /\ pre.revision = Len(pre.history)
    /\ pre.history # <<>>
    /\ nodes # {}

\* C10: when a command method fails inside execute(), undo() or redo(), the
\* caller gets the exception and the pointers are not moved across the
\* failed step: after a failed undo() or redo() both are where they were,
\* after a failed execute() the cursor is not past the failed command.
C10_FailedStepKeepsPointers ==
    (\E k \in 1 .. Len(calls) : ~calls[k].ok) =>
        /\ raised # NoError
        /\ lastOp \in {"undo", "redo"} =>
                (cursor = pre.cursor /\ revision = pre.revision)
        /\ lastOp = "execute" =>
                (cursor < pre.cursor + Len(calls) /\ revision = pre.revision)

\* C11: cursor and revision stay within 0 .. len(log), whatever the calls and
\* whether or not a command fails in them.
C11_PointersInBounds ==
    /\ 0 <= cursor
    /\ cursor <= Len(history)
    /\ 0 <= revision
    /\ revision <= Len(history)

\* A failed call has left the pointers strictly inside a log of two or more.
C11_Witness ==
    /\ raised # NoError
    /\ Len(history) >= 2
    /\ 0 < revision
    /\ revision < Len(history)

\* C12: whenever execute() returns normally cursor == revision; and when
\* cursor == revision held already, execute() calls no command method and
\* changes nothing.
C12_ExecuteSettlesCursor ==
    /\ (lastOp = "execute" /\ raised = NoError) => cursor = revision
    /\ (lastOp = "execute" /\ pre.cursor = pre.revision) =>
            /\ calls = <<>>
            /\ raised = NoError
            /\ NothingChanged

\* An execute() that returned normally after moving the cursor over two
\* pending commands, from a cursor that was not 0.
C12_Witness ==
    /\ lastOp = "execute"
    /\ raised = NoError
    /\ pre.cursor > 0
    /\ pre.cursor + 2 = pre.revision

\* C13: execute(), undo() and redo() leave the log as it was, entries and
\* length: only append changes it.
C13_OnlyAppendChangesLog ==
    lastOp \in {"execute", "undo", "redo"} => history = pre.history

\* An undo has stepped back below the end of a log of two or more: the
\* future is hidden, not removed.
C13_Witness ==
    /\ lastOp = "undo"
    /\ Len(history) >= 2
    /\ revision < Len(history)
    /\ calls # <<>>

\* Whether the store holds what c.execute() adds.
InStore(c, g) ==
    IF c.kind = "AddNode" THEN c.node1 \in g.nodes
    ELSE <<c.node1, c.node2>> \in g.edges

\* The command the last append put on the log.
LastAppended == history[Len(history)]

C15_FailFastExecute ==
    /\ (lastOp = "execute" /\ raised # NoError) =>
            /\ calls # <<>>
            /\ \A j \in 1 .. Len(calls) :
                    /\ calls[j].m = "execute"
                    /\ calls[j].id = history[pre.cursor + j].id
                    /\ calls[j].ok = (j < Len(calls))
                    /\ j < Len(calls) => InSeq(applied, calls[j].id)
            /\ cursor = pre.cursor + Len(calls) - 1
    /\ lastOp = "execute" =>
            \A j \in 1 .. Len(calls) : ~InSeq(pre.applied, calls[j].id)

\* C16: when cursor = revision = i+1 and log[0..i] are all applied, undo()
\* returns the store to exactly what it was immediately before log[i] was
\* last executed, whatever the operands, repeated ones included.
C16_RollbackIsExactInverse ==
    (/\ lastOp = "undo"
     /\ pre.cursor = pre.revision
     /\ pre.revision >= 1
     /\ \A k \in 1 .. pre.revision : InSeq(pre.applied, pre.history[k].id))
        => /\ raised = NoError
           /\ Graph = rt.before

\* The command on the log that a recorded call was made on.
CommandOf(id) == history[CHOOSE k \in 1 .. Len(history) : history[k].id = id]

\* C17: the store fails on an invalid mutation instead of doing nothing: an
\* add that returns normally found its element absent, and a remove of an
\* absent element raises and leaves the store as it was.
C17_StoreFailsOnInvalidMutation ==
    /\ \A j \in 1 .. Len(calls) :
            (calls[j].m = "execute" /\ calls[j].ok)
                => ~InStore(CommandOf(calls[j].id), before[calls[j].id])
    /\ (lastOp = "undo" /\ calls # <<>>
            /\ ~InStore(CommandOf(calls[1].id), [nodes |-> pre.nodes, edges |-> pre.edges]))
          => /\ raised # NoError
             /\ Graph = [nodes |-> pre.nodes, edges |-> pre.edges]

\* C18: the cursor never passes the revision; it is behind the revision only
\* when append was called since the last call that set the cursor; every
\* undo() on a non-empty log and every redo() that is not a no-op ends with
\* cursor = revision.
C18_CursorBehindOnlyWhenPending ==
    /\ cursor <= revision
    /\ cursor < revision => pending
    /\ (lastOp = "undo" /\ pre.history # <<>>) => cursor = revision
    /\ (lastOp = "redo" /\ calls # <<>>) => cursor = revision

\* An append made after the cursor was settled above 0.
C18_Witness ==
    /\ lastOp = "append"
    /\ pending
    /\ 0 < cursor
    /\ cursor < revision

\* C19: every log access of execute (history[i], cursor <= i < revision), undo
\* (history[revision] after the decrement) and redo (history[revision]) uses
\* an index in 0 .. len(log)-1; no call ever raises IndexError.
C19_LogAccessInRange ==
    /\ raised # "IndexError"
    /\ (lastOp = "execute") =>
            \A i \in pre.cursor .. pre.revision - 1 : i \in 0 .. Len(history) - 1
    /\ (lastOp = "undo" /\ pre.history # <<>>) =>
            (calls # <<>> /\ revision \in 0 .. Len(history) - 1)
    /\ (lastOp = "redo" /\ calls # <<>>) =>
            pre.revision \in 0 .. Len(history) - 1

\* undo() at revision 0 of a non-empty log: the clamp makes it read history[0].
C19_Witness ==
    /\ lastOp = "undo"
    /\ pre.revision = 0
    /\ pre.history # <<>>
    /\ calls # <<>>

\* C20: revision < len(log) implies cursor = revision; commands ahead of the
\* revision exist only after an undo; a redo() that is not a no-op starts from
\* cursor = revision; right after every append revision = len(log).
C20_FutureOnlyWhenSettled ==
    /\ revision < Len(history) => (cursor = revision /\ undone /\ ~pending)
    /\ (lastOp = "redo" /\ calls # <<>>) => pre.cursor = pre.revision
    /\ lastOp = "append" => revision = Len(history)

\* A redo that applied a command and left another one ahead of the revision.
C20_Witness ==
    /\ lastOp = "redo"
    /\ calls # <<>>
    /\ raised = NoError
    /\ revision < Len(history)

====
